---------------------------- MODULE Spec2Model ----------------------------
(* A model of the RouterOS API client in src/rosapi/__init__.py: the length *)
(* codec, the word/sentence framer, read_word recv by recv, talk, the       *)
(* resource builders, login, and RouterboardAPI.reconnect.                  *)
(*                                                                          *)
(* A byte is a number in 0..255, a byte string is a sequence of bytes.      *)
(* A Python int that may exceed 2^31 (a word length) is a pair <<hi, lo>>   *)
(* of 16-bit limbs, value = hi * 65536 + lo.                                *)
EXTENDS Integers, Sequences, FiniteSets, TLC

VARIABLES
    PY2,      \* the interpreter the module was loaded by (sys.version_info[0] < 3)
    op,       \* the top-level operation of this run
    arg,      \* its arguments
    peer,     \* what the remote end will put on the stream (environment)
    pc,       \* position of the single thread
    rx,       \* bytes the socket still has to deliver to recv
    tx,       \* bytes handed to socket.send so far
    closed,   \* socket.close() has been called
    words,    \* talk's parameter
    output,   \* talk's local list of (reply, attrs)
    ret,      \* BaseRouterboardResource.ret
    result,   \* outcome of the top-level operation
    rd,       \* read_bytes' locals while read_word runs recv by recv
    conn      \* the RouterboardAPI object and the locals of its reconnect

vars == <<PY2, op, arg, peer, pc, rx, tx, closed, words, output, ret, result,
          rd, conn>>

--------------------------------------------------------------------------
(* Bounds *)

MaxWords == 2      \* words in a sentence written by the framer run
MaxReplies == 3    \* sentences the peer sends before it closes
MaxPreds == 3      \* positional query predicates of one builder call

--------------------------------------------------------------------------
(* Bit arithmetic on naturals *)

RECURSIVE BitAnd(_, _)
BitAnd(a, b) ==
    IF a = 0 \/ b = 0 THEN 0
    ELSE (IF a % 2 = 1 /\ b % 2 = 1 THEN 1 ELSE 0) + 2 * BitAnd(a \div 2, b \div 2)

RECURSIVE BitOr(_, _)
BitOr(a, b) ==
    IF a = 0 THEN b
    ELSE IF b = 0 THEN a
    ELSE (IF a % 2 = 1 \/ b % 2 = 1 THEN 1 ELSE 0) + 2 * BitOr(a \div 2, b \div 2)

\* i & ~m for non-negative i
AndNot(i, m) == i - BitAnd(i, m)

\* Python ints as 16-bit limb pairs
Num(hi, lo) == <<hi, lo>>
NumOfNat(k) == Num(k \div 65536, k % 65536)
NumLess(n, hi, lo) == n[1] < hi \/ (n[1] = hi /\ n[2] < lo)
NumOr(n, hi, lo) == Num(BitOr(n[1], hi), BitOr(n[2], lo))
\* the limbs as a TLA+ natural, only for values below 2^31
NatOfNum(n) == n[1] * 65536 + n[2]
FitsNat(n) == n[1] < 32768

--------------------------------------------------------------------------
(* RosApiLengthUtils *)

\* int.to_bytes(size, 'big') / the PY2 loop: the low `size` bytes, big-endian
to_bytes(n, size) ==
    LET b0 == n[2] % 256
        b1 == n[2] \div 256
        b2 == n[1] % 256
        b3 == n[1] \div 256
    IN  CASE size = 1 -> <<b0>>
          [] size = 2 -> <<b1, b0>>
          [] size = 3 -> <<b2, b1, b0>>
          [] size = 4 -> <<b3, b2, b1, b0>>

\* int.from_bytes(data, 'big'): value <<= 8; value += byte, kept to 32 bits
RECURSIVE from_bytes_acc(_, _)
from_bytes_acc(value, data) ==
    IF data = <<>> THEN value
    ELSE from_bytes_acc(
            Num((value[1] * 256 + value[2] \div 256) % 65536,
                (value[2] % 256) * 256 + Head(data)),
            Tail(data))

from_bytes(data) == from_bytes_acc(Num(0, 0), data)

length_to_bytes(length) ==
    IF NumLess(length, 0, 128) THEN to_bytes(length, 1)
    ELSE IF NumLess(length, 0, 16384) THEN to_bytes(NumOr(length, 0, 32768), 2)
    ELSE IF NumLess(length, 32, 0) THEN to_bytes(NumOr(length, 192, 0), 3)
    ELSE IF NumLess(length, 4096, 0) THEN to_bytes(NumOr(length, 57344, 0), 4)
    ELSE to_bytes(Num(0, 240), 1) \o to_bytes(length, 4)

\* RosAPI.read_bytes(length) on a socket that still delivers `stream`:
\* recv is repeated until `length` bytes are there; when the stream runs dry
\* recv returns b'' (or raises socket.error) and the call raises
\* RosAPIConnectionError.  length = 0 does not touch the socket.
read_bytes(stream, length) ==
    IF length <= Len(stream)
    THEN [ok |-> TRUE, data |-> SubSeq(stream, 1, length),
          rest |-> SubSeq(stream, length + 1, Len(stream))]
    ELSE [ok |-> FALSE, err |-> "RosAPIConnectionError", rest |-> <<>>]

\* res = to_bytes(i) + <the bytes read>; return from_bytes(res)
unpack_value(i, r) ==
    IF r.ok
    THEN [ok |-> TRUE, value |-> from_bytes(to_bytes(Num(0, i), 1) \o r.data),
          rest |-> r.rest]
    ELSE r

\* _unpack(times, i): to_bytes(i) + read_bytes(times), then from_bytes
_unpack(stream, times, i) == unpack_value(i, read_bytes(stream, times))

\* return self.from_bytes(<the bytes read>)
marker_value(r) ==
    IF r.ok THEN [ok |-> TRUE, value |-> from_bytes(r.data), rest |-> r.rest]
    ELSE r

\* read_length() once the first byte i is there
read_length_case(i, rest) ==
    IF BitAnd(i, 128) = 0 THEN [ok |-> TRUE, value |-> Num(0, i), rest |-> rest]
    ELSE IF BitAnd(i, 192) = 128 THEN _unpack(rest, 1, AndNot(i, 192))
    ELSE IF BitAnd(i, 224) = 192 THEN _unpack(rest, 2, AndNot(i, 224))
    ELSE IF BitAnd(i, 240) = 224 THEN _unpack(rest, 3, AndNot(i, 240))
    ELSE IF BitAnd(i, 248) = 240 THEN marker_value(read_bytes(rest, 1))
    ELSE [ok |-> FALSE, err |-> "RosAPIFatalError", rest |-> rest]

read_length_first(b) ==
    IF ~b.ok THEN b ELSE read_length_case(Head(b.data), b.rest)

read_length(stream) == read_length_first(read_bytes(stream, 1))

--------------------------------------------------------------------------
(* RosAPI: the word/sentence framer *)

\* write_bytes(data) on a socket whose peer is up: send is repeated until
\* all of data is handed over.  When the peer is down the first send raises
\* socket.error / returns 0 and the call raises RosAPIConnectionError.
\* Empty data never reaches send.
write_bytes(sent, up, data) ==
    IF data = <<>> THEN [ok |-> TRUE, sent |-> sent]
    ELSE IF up THEN [ok |-> TRUE, sent |-> sent \o data]
    ELSE [ok |-> FALSE, err |-> "RosAPIConnectionError", sent |-> sent]

\* write_word(word): write_lenght(len(word)), then write_bytes(word)
write_word(sent, up, word) ==
    LET l == write_bytes(sent, up, length_to_bytes(NumOfNat(Len(word))))
    IN  IF l.ok THEN write_bytes(l.sent, up, word) ELSE l

RECURSIVE write_words(_, _, _, _)
write_words(sent, up, ws, words_written) ==
    IF ws = <<>>
    THEN LET t == write_word(sent, up, <<>>)
         IN  IF t.ok THEN [ok |-> TRUE, sent |-> t.sent, count |-> words_written]
             ELSE t
    ELSE LET w == write_word(sent, up, Head(ws))
         IN  IF w.ok THEN write_words(w.sent, up, Tail(ws), words_written + 1)
             ELSE w

\* write_sentence that returns early on an empty list, writing nothing
write_sentence_early(sent, up, ws) ==
    IF ws = <<>> THEN [ok |-> TRUE, sent |-> sent, count |-> 0]
    ELSE write_words(sent, up, ws, 0)

\* write_sentence(words): every word, then the empty word; returns the count
write_sentence(sent, up, ws) == write_words(sent, up, ws, 0)

\* the word read_word returns, from the outcome of its read_bytes
read_word_data(d) ==
    IF d.ok THEN [ok |-> TRUE, word |-> d.data, rest |-> d.rest] ELSE d

\* read_word() once read_length has returned l; a length of 2^31 or more
\* outruns any stream of the model
read_word_payload(l) ==
    IF ~l.ok THEN l
    ELSE IF ~FitsNat(l.value)
    THEN [ok |-> FALSE, err |-> "RosAPIConnectionError", rest |-> <<>>]
    ELSE read_word_data(read_bytes(l.rest, NatOfNum(l.value)))

\* read_word(): read_bytes(read_length())
read_word(stream) == read_word_payload(read_length(stream))

RECURSIVE read_words(_, _)

\* the loop body that appends the word before it tests for the terminator
read_words_append_first(w, sentence) ==
    IF ~w.ok THEN w
    ELSE IF Len(w.word) = 0
    THEN [ok |-> TRUE, sentence |-> Append(sentence, w.word), rest |-> w.rest]
    ELSE read_words(w.rest, Append(sentence, w.word))

\* the body of read_sentence's loop, once read_word has returned w
read_words_step(w, sentence) ==
    IF ~w.ok THEN w
    ELSE IF Len(w.word) = 0
    THEN [ok |-> TRUE, sentence |-> sentence, rest |-> w.rest]
    ELSE read_words(w.rest, Append(sentence, w.word))

read_words(stream, sentence) == read_words_step(read_word(stream), sentence)

\* read_sentence(): words up to the first empty word
read_sentence(stream) == read_words(stream, <<>>)

--------------------------------------------------------------------------
(* RosAPI.talk *)

W_done  == <<33, 100, 111, 110, 101>>         \* b'!done'
W_trap  == <<33, 116, 114, 97, 112>>          \* b'!trap'
W_fatal == <<33, 102, 97, 116, 97, 108>>      \* b'!fatal'
W_re    == <<33, 114, 101>>                   \* b'!re'
EqSign  == <<61>>                             \* b'='

\* line.index(b'=', 1): the least 0-based position >= 1 holding '=', or -1
\* where Python raises ValueError
index_eq(line) ==
    LET hits == {p \in 1..(Len(line) - 1) : line[p + 1] = EqSign[1]}
    IN  IF hits = {} THEN -1
        ELSE CHOOSE p \in hits : \A q \in hits : p <= q

\* A dict as the sequence of its <<key, value>> items in insertion order
dict_has(d, k) == \E j \in 1..Len(d) : d[j][1] = k
dict_get(d, k) == d[CHOOSE j \in 1..Len(d) : d[j][1] = k][2]
dict_set(d, k, v) ==
    IF dict_has(d, k)
    THEN [j \in 1..Len(d) |-> IF d[j][1] = k THEN <<k, v>> ELSE d[j]]
    ELSE Append(d, <<k, v>>)
dict_items(d) == {d[j] : j \in 1..Len(d)}

\* the for loop over the attribute words of one reply.  `except IndexError`
\* does not catch the ValueError of bytes.index, so a word without a second
\* '=' ends the loop with ValueError.
RECURSIVE parse_attrs(_, _)
parse_attrs(lines, attrs) ==
    IF lines = <<>> THEN [ok |-> TRUE, attrs |-> attrs]
    ELSE LET line == Head(lines)
             second_eq_pos == index_eq(line)
         IN  IF second_eq_pos = -1
             THEN [ok |-> FALSE, err |-> "ValueError"]
             ELSE parse_attrs(Tail(lines),
                     dict_set(attrs,
                              SubSeq(line, 2, second_eq_pos),
                              SubSeq(line, second_eq_pos + 2, Len(line))))

\* One pass of talk's while loop: read a sentence, skip it when empty,
\* otherwise append (reply, attrs) and classify once the reply is !done.
Step(status, kind, value, out, rest, close) ==
    [status |-> status, kind |-> kind, value |-> value,
     output |-> out, rest |-> rest, close |-> close]

\* talk_append without the test of reply == b'!done'
talk_append_any(reply, out2, rest) ==
    IF out2[1][1] = W_trap
    THEN Step("raise", "RosAPIError", out2[1][2], out2, rest, FALSE)
    ELSE IF out2[1][1] = W_fatal
    THEN Step("raise", "RosAPIFatalError", out2[1][2], out2, rest, TRUE)
    ELSE Step("return", "return", out2, out2, rest, FALSE)

\* output.append((reply, attrs)) and the test of reply == b'!done'
talk_append(reply, out2, rest) ==
    IF reply # W_done THEN Step("continue", "", <<>>, out2, rest, FALSE)
    ELSE IF out2[1][1] = W_trap
    THEN Step("raise", "RosAPIError", out2[1][2], out2, rest, FALSE)
    ELSE IF out2[1][1] = W_fatal
    THEN Step("raise", "RosAPIFatalError", out2[1][2], out2, rest, TRUE)
    ELSE Step("return", "return", out2, out2, rest, FALSE)

\* the loop body after the attribute words of the reply have been parsed
talk_reply(out, reply, a, rest) ==
    IF ~a.ok THEN Step("raise", a.err, <<>>, out, rest, FALSE)
    ELSE talk_append(reply, Append(out, <<reply, a.attrs>>), rest)

\* the loop body after read_sentence has returned s
talk_sentence(out, s) ==
    IF ~s.ok THEN Step("raise", s.err, <<>>, out, s.rest, FALSE)
    ELSE IF Len(s.sentence) = 0 THEN Step("continue", "", <<>>, out, s.rest, FALSE)
    ELSE talk_reply(out, Head(s.sentence), parse_attrs(Tail(s.sentence), <<>>), s.rest)

talk_iteration(out, stream) == talk_sentence(out, read_sentence(stream))

--------------------------------------------------------------------------
(* The remote end *)

\* A reply sentence the peer sends: a tag word and attribute words
\* <<key, value, hasEq>>; hasEq = FALSE is the word "=key" without a second
\* '='.  tag = <<>> is the empty sentence.
Reply(tag, attrs) == [tag |-> tag, attrs |-> attrs]

K_ret     == <<114, 101, 116>>                      \* ret
K_message == <<109, 101, 115, 115, 97, 103, 101>>   \* message
K_name    == <<110, 97, 109, 101>>                  \* name
K_dotid   == <<46, 105, 100>>                       \* .id
K_flag    == <<102, 108, 97, 103>>                  \* flag

R_empty   == Reply(<<>>, <<>>)
R_re      == Reply(W_re, << <<K_dotid, <<42, 49>>, TRUE>>,
                            <<K_name, <<97, 61, 98>>, TRUE>> >>)    \* !re =.id=*1 =name=a=b
R_reflag  == Reply(W_re, << <<K_flag, <<>>, FALSE>> >>)             \* !re =flag
R_done    == Reply(W_done, <<>>)                                    \* !done
R_done5   == Reply(W_done, << <<K_ret, <<53>>, TRUE>> >>)           \* !done =ret=5
R_donex   == Reply(W_done, << <<K_ret, <<120>>, TRUE>> >>)          \* !done =ret=x
R_trap    == Reply(W_trap, << <<K_message, <<110, 111>>, TRUE>> >>) \* !trap =message=no
R_fatal   == Reply(W_fatal, << <<K_message, <<110, 111>>, TRUE>> >>) \* !fatal =message=no

\* The wire form of a word shorter than 0x80 bytes, as the device frames it
PeerWord(w) == <<Len(w)>> \o w

PeerAttr(a) == EqSign \o a[1] \o (IF a[3] THEN EqSign \o a[2] ELSE <<>>)

RECURSIVE PeerAttrs(_)
PeerAttrs(as) ==
    IF as = <<>> THEN <<>> ELSE PeerWord(PeerAttr(Head(as))) \o PeerAttrs(Tail(as))

PeerSentence(r) ==
    IF r.tag = <<>> THEN PeerWord(<<>>)
    ELSE PeerWord(r.tag) \o PeerAttrs(r.attrs) \o PeerWord(<<>>)

RECURSIVE PeerSentences(_)
PeerSentences(rs) ==
    IF rs = <<>> THEN <<>> ELSE PeerSentence(Head(rs)) \o PeerSentences(Tail(rs))

\* Everything the peer delivers before it closes the connection
PeerBytes(p) == PeerSentences(p.replies) \o p.tail

SeqsUpTo(S, n) == UNION {[1..k -> S] : k \in 0..n}

--------------------------------------------------------------------------
(* State machine *)

NoResult == [kind |-> "none"]

\* No read_word is running recv by recv, and there is no RouterboardAPI
Unused == <<>>

Idle ==
    /\ tx = <<>>
    /\ closed = FALSE
    /\ output = <<>>
    /\ ret = <<>>
    /\ result = NoResult
    /\ rd = Unused
    /\ conn = Unused

\* ---- the length codec over a loop-back stream ----

LengthInputs ==
    { Num(0, 0), Num(0, 127), Num(0, 128), Num(0, 16383), Num(0, 16384),
      Num(31, 65535), Num(32, 0), Num(4095, 65535), Num(4096, 0),
      Num(65535, 65535),
      Num(0, 1), Num(0, 129), Num(0, 256), Num(0, 16385), Num(1, 0),
      Num(32, 1), Num(256, 0), Num(4096, 1), Num(32767, 65535), Num(32768, 0) }

Tails == { <<>>, <<0>>, <<255, 1>> }

\* Streams handed to read_length as they are: a first byte of every prefix
\* class, the unassigned 0xF8..0xFF included, and what follows it
FirstBytes == { 0, 127, 128, 191, 192, 223, 224, 239, 240, 247,
                248, 249, 252, 255 }

FramingInputs == { <<b>> \o t : b \in FirstBytes, t \in { <<>>, <<1, 2, 3, 4>> } }

InitLength ==
    /\ PY2 \in BOOLEAN
    /\ peer \in [up : {TRUE}, replies : {<<>>}, tail : Tails]
    /\ \/ /\ op = "length"
          /\ arg \in [length : LengthInputs]
          /\ pc = "start"
          /\ rx = <<>>
       \/ /\ op = "read_length"
          /\ arg \in [stream : FramingInputs]
          /\ peer.tail = <<>>
          /\ pc = "looped"
          /\ rx = arg.stream
    /\ words = <<>>
    /\ Idle

\* RosApiLengthUtils.write_lenght(length)
write_lenght ==
    /\ op = "length" /\ pc = "start"
    /\ tx' = write_bytes(tx, peer.up, length_to_bytes(arg.length)).sent
    /\ pc' = "written"
    /\ UNCHANGED <<rd, conn, PY2, op, arg, peer, rx, closed, words, output, ret, result>>

\* The bytes written come back as the stream to read, followed by whatever
\* the peer sends next
Loopback ==
    /\ pc = "written"
    /\ rx' = tx \o peer.tail
    /\ pc' = "looped"
    /\ UNCHANGED <<rd, conn, PY2, op, arg, peer, tx, closed, words, output, ret, result>>

\* RosApiLengthUtils.read_length()
do_read_length ==
    /\ op \in {"length", "read_length"} /\ pc = "looped"
    /\ LET r == read_length(rx)
       IN  /\ rx' = r.rest
           /\ result' = IF r.ok THEN [kind |-> "return", value |-> r.value]
                        ELSE [kind |-> r.err]
    /\ pc' = "done"
    /\ UNCHANGED <<rd, conn, PY2, op, arg, peer, tx, closed, words, output, ret>>

NextLength == write_lenght \/ Loopback \/ do_read_length

SpecLength == InitLength /\ [][NextLength]_vars

\* ---- the sentence framer over a loop-back stream ----

BigWord == [j \in 1..128 |-> 97]     \* a word that needs a 2-byte length

WordInputs == { <<>>, <<97>>, <<0>>, <<33, 61>>, BigWord }

InitSentence ==
    /\ PY2 \in BOOLEAN
    /\ op = "sentence"
    /\ arg \in [words : SeqsUpTo(WordInputs, MaxWords)]
    /\ peer \in [up : {TRUE}, replies : {<<>>}, tail : Tails]
    /\ pc = "start"
    /\ rx = <<>>
    /\ words = <<>>
    /\ Idle

\* RosAPI.write_sentence(words)
do_write_sentence ==
    /\ op = "sentence" /\ pc = "start"
    /\ LET w == write_sentence(tx, peer.up, arg.words)
       IN  /\ tx' = w.sent
           /\ result' = [kind |-> "written", count |-> w.count]
    /\ pc' = "written"
    /\ UNCHANGED <<rd, conn, PY2, op, arg, peer, rx, closed, words, output, ret>>

\* RosAPI.read_sentence()
do_read_sentence ==
    /\ op = "sentence" /\ pc = "looped"
    /\ LET r == read_sentence(rx)
       IN  /\ rx' = r.rest
           /\ result' = IF r.ok
                        THEN [kind |-> "return", count |-> result.count,
                              value |-> r.sentence]
                        ELSE [kind |-> r.err, count |-> result.count]
    /\ pc' = "done"
    /\ UNCHANGED <<rd, conn, PY2, op, arg, peer, tx, closed, words, output, ret>>

NextSentence == do_write_sentence \/ Loopback \/ do_read_sentence

SpecSentence == InitSentence /\ [][NextSentence]_vars

\* ---- read_word, one socket.recv at a time ----

Min(a, b) == IF a <= b THEN a ELSE b

\* The length prefix of `width` bytes by which the device announces n < 2^16
PeerLength(width, n) ==
    CASE width = 1 -> <<n>>
      [] width = 2 -> <<128 + n \div 256, n % 256>>
      [] width = 3 -> <<192, n \div 256, n % 256>>
      [] width = 4 -> <<224, 0, n \div 256, n % 256>>
      [] width = 5 -> <<240, 0, 0, n \div 256, n % 256>>

Payloads == { <<>>, <<97>>, <<97, 98, 99>>, BigWord }

\* bytes the peer delivers before it closes the connection
Cuts == (0..10) \cup {100, 200}

\* The word on the wire and the start of the next one, as far as the peer
\* delivers them
RecvStream(a) ==
    SubSeq(PeerLength(a.width, Len(a.payload)) \o a.payload \o a.following,
           1, Min(a.cut, a.width + Len(a.payload) + Len(a.following)))

\* read_bytes(length) is entered: received_overal = b''
read_bytes_enter(stage, i, length) ==
    [stage |-> stage, i |-> i, length |-> length, received_overal |-> <<>>,
     bufsize |-> 0, missing |-> 0]

InitRecv ==
    /\ PY2 \in BOOLEAN
    /\ op = "read_word"
    /\ arg \in [width : 1..5, payload : Payloads,
                following : { <<>>, <<7, 8>> }, cut : Cuts]
    /\ arg.width = 1 => Len(arg.payload) < 128
    /\ arg.payload = BigWord => arg.width = 2
    /\ peer = [up |-> TRUE, replies |-> <<>>, tail |-> <<>>]
    /\ pc = "recv"
    /\ rx = RecvStream(arg)
    /\ rd = read_bytes_enter("first", 0, 1)
    /\ words = <<>>
    /\ tx = <<>>
    /\ closed = FALSE
    /\ output = <<>>
    /\ ret = <<>>
    /\ result = NoResult
    /\ conn = Unused

\* what socket.recv(bufsize) may return: any non-empty prefix of what the
\* peer has delivered, of at most bufsize bytes; b'' once the peer has closed
Received(stream, bufsize) ==
    IF stream = <<>> THEN { <<>> }
    ELSE { SubSeq(stream, 1, c) : c \in 1..Min(bufsize, Len(stream)) }

\* the argument of recv in read_bytes' loop
recv_size(length, received_overal) == length - Len(received_overal)

\* How many bytes read_length reads after the first byte i: the `times` of
\* _unpack, one byte after a 0xF0 marker, none for a 1-byte length; -1
\* where it raises
length_more(i) ==
    IF BitAnd(i, 128) = 0 THEN 0
    ELSE IF BitAnd(i, 192) = 128 THEN 1
    ELSE IF BitAnd(i, 224) = 192 THEN 2
    ELSE IF BitAnd(i, 240) = 224 THEN 3
    ELSE IF BitAnd(i, 248) = 240 THEN 1
    ELSE -1

Going(r) == [pc |-> "recv", rd |-> r, result |-> NoResult]
Ended(r, res) == [pc |-> "done", rd |-> r, result |-> res]

\* read_word once read_length has returned l: read_bytes(l); a length of 0
\* does not reach recv
read_word_length(r, l) ==
    IF NatOfNum(l.value) = 0
    THEN Ended(r, [kind |-> "return", value |-> <<>>])
    ELSE Going(read_bytes_enter("payload", 0, NatOfNum(l.value)))

\* read_length once its first byte i is there
read_length_more(r, i) ==
    IF length_more(i) = -1 THEN Ended(r, [kind |-> "RosAPIFatalError"])
    ELSE IF length_more(i) = 0 THEN read_word_length(r, read_length_case(i, <<>>))
    ELSE Going(read_bytes_enter("more", i, length_more(i)))

\* read_bytes returns data to read_length or to read_word
read_bytes_return(r, data) ==
    CASE r.stage = "first" -> read_length_more(r, Head(data))
      [] r.stage = "more" -> read_word_length(r, read_length_case(r.i, data))
      [] r.stage = "payload" -> Ended(r, [kind |-> "return", value |-> data])

\* one pass of read_bytes' loop after recv has returned `received`
read_bytes_pass(r, received) ==
    IF Len(received) = 0 THEN Ended(r, [kind |-> "RosAPIConnectionError"])
    ELSE IF Len(r.received_overal) + Len(received) < r.length
    THEN Going([r EXCEPT !.received_overal = @ \o received])
    ELSE read_bytes_return(r, r.received_overal \o received)

\* One socket.recv of read_bytes and the code of read_word up to the next
\* recv, or to its end
recv ==
    /\ op = "read_word" /\ pc = "recv"
    /\ \E bufsize \in { recv_size(rd.length, rd.received_overal) } :
       \E received \in Received(rx, bufsize) :
       \E next \in { read_bytes_pass(
                        [rd EXCEPT !.bufsize = bufsize,
                                   !.missing = rd.length - Len(rd.received_overal)],
                        received) } :
           /\ rx' = SubSeq(rx, Len(received) + 1, Len(rx))
           /\ rd' = next.rd
           /\ pc' = next.pc
           /\ result' = next.result
    /\ UNCHANGED <<PY2, op, arg, peer, tx, closed, words, output, ret, conn>>

NextRecv == recv

SpecRecv == InitRecv /\ [][NextRecv]_vars

\* ---- talk against a scripted peer ----

TalkReplies == { R_empty, R_re, R_reflag, R_done, R_done5, R_trap, R_fatal }

W_login == <<47, 108, 111, 103, 105, 110>>    \* b'/login'

TalkRequests == { <<>>, <<W_login>> }

InitTalk ==
    /\ PY2 \in BOOLEAN
    /\ op = "talk"
    /\ arg \in [words : TalkRequests]
    /\ peer \in [up : BOOLEAN, replies : SeqsUpTo(TalkReplies, MaxReplies),
                 tail : { <<>>, <<248>> }]
    /\ pc = "talk"
    /\ rx = PeerBytes(peer)
    /\ words = arg.words
    /\ Idle

\* Where an error raised by talk, and a list returned by it, go: to the
\* run itself, to BaseRouterboardResource.call, or to RosAPI.login called
\* inside the try block of RouterboardAPI.reconnect
RaiseTo == IF op = "reconnect" THEN "except" ELSE "done"

ReturnTo ==
    CASE op = "resource" -> "call_response"
      [] op = "reconnect" -> "login_response"
      [] OTHER -> "done"

\* socket.recv blocks: the stream is empty and the peer is one that goes on
\* sending
Blocked == "pad" \in DOMAIN peer /\ peer.pad /\ rx = <<>>

\* talk(words), up to the while loop: write the request sentence and
\* return None when it had no word
talk_write ==
    /\ pc = "talk"
    /\ LET w == write_sentence(tx, peer.up, words)
       IN  /\ tx' = w.sent
           /\ IF ~w.ok
              THEN /\ result' = [kind |-> w.err, value |-> <<>>]
                   /\ pc' = RaiseTo
              ELSE IF w.count = 0
              THEN /\ result' = [kind |-> "return", value |-> "None"]
                   /\ pc' = "done"
              ELSE /\ result' = result
                   /\ pc' = "talk_read"
    /\ output' = <<>>
    /\ UNCHANGED <<rd, conn, PY2, op, arg, peer, rx, closed, words, ret>>

\* talk(words), one pass of the while loop
talk_read ==
    /\ pc = "talk_read"
    /\ ~Blocked
    /\ \E it \in { talk_iteration(output, rx) } :
           /\ rx' = it.rest
           /\ output' = it.output
           /\ closed' = (closed \/ it.close)
           /\ CASE it.status = "continue" -> /\ pc' = pc
                                             /\ result' = result
                [] it.status = "raise" -> /\ pc' = RaiseTo
                                          /\ result' = [kind |-> it.kind, value |-> it.value]
                [] it.status = "return" ->
                      /\ pc' = ReturnTo
                      /\ result' = IF op = "talk"
                                   THEN [kind |-> "return", value |-> it.value]
                                   ELSE result
    /\ UNCHANGED <<rd, conn, PY2, op, arg, peer, tx, words, ret>>

NextTalk == talk_write \/ talk_read

SpecTalk == InitTalk /\ [][NextTalk]_vars

\* ---- talk against a peer that may go on sending empty sentences ----

LiveReplies == { R_empty, R_re, R_done, R_trap }

\* pad: once the scripted bytes are out, the peer sends one empty sentence
\* after another instead of closing the connection
InitTalkLive ==
    /\ PY2 \in BOOLEAN
    /\ op = "talk"
    /\ arg \in [words : TalkRequests]
    /\ peer \in [up : BOOLEAN, replies : SeqsUpTo(LiveReplies, MaxReplies),
                 tail : { <<>>, <<248>> }, pad : BOOLEAN]
    /\ pc = "talk"
    /\ rx = PeerBytes(peer)
    /\ words = arg.words
    /\ Idle

\* The peer's next empty sentence arrives
PeerPad ==
    /\ pc = "talk_read"
    /\ Blocked
    /\ rx' = PeerSentence(R_empty)
    /\ UNCHANGED <<rd, conn, PY2, op, arg, peer, pc, tx, closed, words, output, ret, result>>

NextTalkLive == talk_write \/ talk_read \/ PeerPad

\* Weak fairness of talk_write and of talk_read, WF_vars(A) written out as
\* []<>~ENABLED <<A>>_vars \/ []<><<A>>_vars with the enabling condition in
\* place of ENABLED: a step of either always changes pc or shortens rx.
RunsTalkWrite == ([]<>(pc # "talk")) \/ []<><<talk_write>>_vars

RunsTalkRead == ([]<>(pc # "talk_read" \/ Blocked)) \/ []<><<talk_read>>_vars

\* The caller's thread runs talk to its end and the peer goes on sending:
\* no step that can be taken is put off for ever
SpecTalkLive ==
    /\ InitTalkLive
    /\ [][NextTalkLive]_vars
    /\ RunsTalkWrite
    /\ RunsTalkRead
    /\ WF_vars(PeerPad)

\* ---- the resource builders ----

\* Text and byte strings are both sequences of codes; a Python value that
\* may be None is <<>> for None and <<v>> for the value v.
None == <<>>
Some(v) == <<v>>

T_id          == <<105, 100>>                                          \* id
T_proplist    == <<112, 114, 111, 112, 108, 105, 115, 116>>            \* proplist
T_dotproplist == <<46, 112, 114, 111, 112, 108, 105, 115, 116>>        \* .proplist
T_type        == <<116, 121, 112, 101>>                                \* type
T_ether       == <<101, 116, 104, 101, 114>>                           \* ether
T_vlan        == <<118, 108, 97, 110>>                                 \* vlan
T_or          == <<35, 124>>                                           \* #|
T_mac_address == <<109, 97, 99, 95, 97, 100, 100, 114, 101, 115, 115>> \* mac_address
T_name_type   == <<110, 97, 109, 101, 44, 116, 121, 112, 101>>         \* name,type
T_comment     == <<99, 111, 109, 109, 101, 110, 116>>                  \* comment
T_disabled    == <<100, 105, 115, 97, 98, 108, 101, 100>>              \* disabled
T_detail      == <<100, 101, 116, 97, 105, 108>>                       \* detail
T_count_only  == <<99, 111, 117, 110, 116, 45, 111, 110, 108, 121>>    \* count-only
T_print       == <<112, 114, 105, 110, 116>>                           \* print
T_set         == <<115, 101, 116>>                                     \* set
T_add         == <<97, 100, 100>>                                      \* add
T_remove      == <<114, 101, 109, 111, 118, 101>>                      \* remove
T_interface   == <<47, 105, 110, 116, 101, 114, 102, 97, 99, 101>>     \* /interface
Slash         == <<47>>
Dot           == <<46>>
QuestionMark  == <<63>>
Underscore    == <<95>>
Hyphen        == <<45>>

\* str.encode('ascii') / bytes.decode('ascii'): the same codes, and an
\* error for a code outside ASCII
IsAscii(t) == \A j \in 1..Len(t) : t[j] < 128

\* key.replace('_', '-')
replace_underscores(key) ==
    [j \in 1..Len(key) |-> IF key[j] = Underscore[1] THEN Hyphen[1] ELSE key[j]]

\* the key of one argument: the dot for id and proplist, no replace
prepare_key_no_replace(key) ==
    IF key \in {T_id, T_proplist} THEN Dot \o key ELSE key

\* the key of one argument: the dot for id and proplist, then the replace
prepare_key(key) ==
    replace_underscores(IF key \in {T_id, T_proplist} THEN Dot \o key ELSE key)

\* _prepare_arguments(is_query, args): one word per (key, value), in order.
\* bytes + None is a TypeError; a key outside ASCII cannot be encoded.
RECURSIVE _prepare_arguments(_, _, _)
_prepare_arguments(is_query, args, command_arguments) ==
    IF args = <<>> THEN [ok |-> TRUE, words |-> command_arguments]
    ELSE LET key == prepare_key(Head(args)[1])
             value == Head(args)[2]
             selector_char == IF is_query THEN QuestionMark ELSE EqSign
         IN  IF ~IsAscii(key) THEN [ok |-> FALSE, err |-> "UnicodeEncodeError"]
             ELSE IF is_query /\ value = None
             THEN _prepare_arguments(is_query, Tail(args),
                        Append(command_arguments, QuestionMark \o key))
             ELSE IF value = None THEN [ok |-> FALSE, err |-> "TypeError"]
             ELSE _prepare_arguments(is_query, Tail(args),
                        Append(command_arguments,
                               selector_char \o key \o EqSign \o value[1]))

\* RouterboardResource._encode_items(items): v.encode('ascii') if v else b''
RECURSIVE _encode_items(_)
_encode_items(items) ==
    IF items = <<>> THEN [ok |-> TRUE, items |-> <<>>]
    ELSE LET k == Head(items)[1]
             v == Head(items)[2]
             r == _encode_items(Tail(items))
         IN  IF v # None /\ v[1] # <<>> /\ ~IsAscii(v[1])
             THEN [ok |-> FALSE, err |-> "UnicodeEncodeError"]
             ELSE IF ~r.ok THEN r
             ELSE [ok |-> TRUE,
                   items |-> << <<k, IF v # None /\ v[1] # <<>> THEN v ELSE Some(<<>>)>> >>
                               \o r.items]

\* BaseRouterboardResource.call, up to the talk: the query sentence
base_call_query(namespace, command, set_items, query_args) ==
    LET query_arguments == _prepare_arguments(TRUE, query_args, <<>>)
        set_arguments == _prepare_arguments(FALSE, set_items, <<>>)
    IN  IF ~query_arguments.ok THEN query_arguments
        ELSE IF ~set_arguments.ok THEN set_arguments
        ELSE [ok |-> TRUE,
              words |-> <<namespace \o Slash \o command>>
                          \o query_arguments.words \o set_arguments.words]

\* RouterboardResource.call, up to the talk: both argument lists go
\* through _encode_items first
text_call_query(namespace, command, set_items, query_args) ==
    LET s == _encode_items(set_items)
        q == _encode_items(query_args)
    IN  IF ~s.ok THEN s
        ELSE IF ~q.ok THEN q
        ELSE base_call_query(namespace, command, s.items, q.items)

\* The orders in which a dict's items can come out
Orders(items) ==
    { [j \in 1..Len(items) |-> items[f[j]]] :
        f \in { g \in [1..Len(items) -> 1..Len(items)] :
                  \A a, b \in 1..Len(items) : g[a] = g[b] => a = b } }

QueryMethods == {"get", "detailed_get", "count"}
FieldMethods == {"set", "add", "remove"}

CommandOf(method) ==
    CASE method \in QueryMethods -> T_print
      [] method = "set" -> T_set
      [] method = "add" -> T_add
      [] method = "remove" -> T_remove

\* The set_kwargs a method passes to call, given the order the caller's
\* keyword arguments come out of the dict
SetItemsOf(method, kw) ==
    CASE method = "get" -> <<>>
      [] method = "detailed_get" -> << <<T_detail, Some(<<>>)>> >>
      [] method = "count" -> << <<T_count_only, Some(<<>>)>> >>
      [] OTHER -> kw

\* The query_args a method passes to call: args += tuple(kwargs.items())
QueryArgsOf(method, args, kw) ==
    IF method \in QueryMethods THEN args \o kw ELSE <<>>

\* _remove_first_char_from_keys(dictionary): .id and .proplist lose the dot
RECURSIVE _remove_first_char_from_keys(_, _)
_remove_first_char_from_keys(items, elements) ==
    IF items = <<>> THEN elements
    ELSE LET key == Head(items)[1]
         IN  _remove_first_char_from_keys(Tail(items),
                dict_set(elements,
                         IF key \in {K_dotid, T_dotproplist} THEN Tail(key) ELSE key,
                         Head(items)[2]))

\* 'ret' in attributes: the text key 'ret' equals the byte-string key only
\* under Python 2, where a byte string is a str
has_ret(py2, attributes) == py2 /\ dict_has(attributes, K_ret)

\* the for loop of BaseRouterboardResource.call over the response
RECURSIVE call_response_loop(_, _, _, _)
call_response_loop(py2, response, out, r) ==
    IF response = <<>> THEN [output |-> out, ret |-> r]
    ELSE LET response_type == Head(response)[1]
             attributes == Head(response)[2]
             out2 == IF response_type = W_re
                     THEN Append(out, _remove_first_char_from_keys(attributes, <<>>))
                     ELSE out
             r2 == IF response_type = W_done
                   THEN IF has_ret(py2, attributes)
                        THEN Some(dict_get(attributes, K_ret)) ELSE None
                   ELSE r
         IN  call_response_loop(py2, Tail(response), out2, r2)

\* int(x) of a string of decimal digits; anything else here is a ValueError
IsDigits(t) == t # <<>> /\ \A j \in 1..Len(t) : t[j] >= 48 /\ t[j] <= 57

RECURSIVE int_acc(_, _)
int_acc(t, value) ==
    IF t = <<>> THEN value ELSE int_acc(Tail(t), value * 10 + (Head(t) - 48))

\* int(self.ret)
int_of_ret(r) ==
    IF r = None THEN [kind |-> "TypeError", value |-> <<>>]
    ELSE IF ~IsDigits(r[1]) THEN [kind |-> "ValueError", value |-> <<>>]
    ELSE [kind |-> "return", value |-> int_acc(r[1], 0)]

QueryPreds ==
    { <<T_type, Some(T_ether)>>, <<T_type, Some(T_vlan)>>, <<T_or, None>>,
      <<T_mac_address, Some(<<>>)>>, <<T_mac_address, None>>,
      <<T_id, Some(<<42, 49>>)>> }

QueryKwargs ==
    { <<>>, << <<K_name, Some(<<120>>)>> >>, << <<T_comment, Some(<<233>>)>> >> }

Fields ==
    { <<T_proplist, Some(T_name_type)>>, <<T_id, Some(<<42, 49>>)>>,
      <<T_mac_address, Some(<<>>)>>, <<T_disabled, None>> }

FieldKwargs ==
    { kw \in SeqsUpTo(Fields, 2) :
        \A a, b \in 1..Len(kw) : kw[a][1] = kw[b][1] => a = b }

R_done12 == Reply(W_done, << <<K_ret, <<49, 50>>, TRUE>> >>)   \* !done =ret=12

ResourceReplies == { R_re, R_done, R_done5, R_done12, R_donex, R_trap }

ResourceArgs ==
    [kind : {"base", "text"}, method : QueryMethods,
     args : SeqsUpTo(QueryPreds, MaxPreds), kwargs : QueryKwargs]
    \cup
    [kind : {"base", "text"}, method : FieldMethods,
     args : {<<>>}, kwargs : FieldKwargs]

InitResource ==
    /\ PY2 \in BOOLEAN
    /\ op = "resource"
    /\ \/ /\ arg \in ResourceArgs
          /\ peer = [up |-> TRUE, replies |-> <<R_re, R_done5>>, tail |-> <<>>]
       \/ /\ arg \in [kind : {"base", "text"}, method : QueryMethods \cup FieldMethods,
                      args : {<<>>}, kwargs : {<<>>}]
          /\ peer \in [up : {TRUE}, replies : SeqsUpTo(ResourceReplies, MaxReplies),
                       tail : {<<>>}]
    /\ pc = "start"
    /\ rx = PeerBytes(peer)
    /\ words = <<>>
    /\ Idle

\* get / detailed_get / count / set / add / remove, up to the talk of call
resource_call ==
    /\ op = "resource" /\ pc = "start"
    /\ \E kw \in Orders(arg.kwargs) :
          LET q == IF arg.kind = "base"
                   THEN base_call_query(T_interface, CommandOf(arg.method),
                                        SetItemsOf(arg.method, kw),
                                        QueryArgsOf(arg.method, arg.args, kw))
                   ELSE text_call_query(T_interface, CommandOf(arg.method),
                                        SetItemsOf(arg.method, kw),
                                        QueryArgsOf(arg.method, arg.args, kw))
          IN  IF q.ok
              THEN /\ words' = q.words
                   /\ pc' = "talk"
                   /\ result' = result
              ELSE /\ words' = words
                   /\ pc' = "done"
                   /\ result' = [kind |-> q.err, value |-> <<>>]
    /\ UNCHANGED <<rd, conn, PY2, op, arg, peer, rx, tx, closed, output, ret>>

\* call after talk has returned: the records of the !re replies, self.ret
\* from the !done reply, the text builder's decode of every value, and
\* count's int(self.ret)
call_response ==
    /\ op = "resource" /\ pc = "call_response"
    /\ LET c == call_response_loop(PY2, output, <<>>, ret)
           undecodable == arg.kind = "text" /\
                \E j \in 1..Len(c.output) : \E i \in 1..Len(c.output[j]) :
                    ~IsAscii(c.output[j][i][2])
       IN  /\ ret' = c.ret
           /\ result' = IF undecodable
                        THEN [kind |-> "UnicodeDecodeError", value |-> <<>>]
                        ELSE IF arg.method = "count" THEN int_of_ret(c.ret)
                        ELSE [kind |-> "return", value |-> c.output]
    /\ pc' = "done"
    /\ UNCHANGED <<rd, conn, PY2, op, arg, peer, rx, tx, closed, words, output>>

NextResource == resource_call \/ talk_write \/ talk_read \/ call_response

SpecResource == InitResource /\ [][NextResource]_vars

--------------------------------------------------------------------------
(* RosAPI.login *)

\* binascii: a hex digit of a nibble, and the nibble of a hex digit (-1 for
\* any other character)
HexDigit(n) == IF n < 10 THEN 48 + n ELSE 87 + n

HexValue(c) ==
    IF c >= 48 /\ c <= 57 THEN c - 48
    ELSE IF c >= 97 /\ c <= 102 THEN c - 87
    ELSE IF c >= 65 /\ c <= 70 THEN c - 55
    ELSE -1

RECURSIVE hexlify(_)
hexlify(data) ==
    IF data = <<>> THEN <<>>
    ELSE <<HexDigit(Head(data) \div 16), HexDigit(Head(data) % 16)>>
            \o hexlify(Tail(data))

\* binascii.unhexlify: an odd length or a character that is no hex digit
\* raises binascii.Error (TypeError on Python 2)
RECURSIVE unhexlify_acc(_, _, _)
unhexlify_acc(py2, hex, acc) ==
    IF hex = <<>> THEN [ok |-> TRUE, data |-> acc]
    ELSE IF Len(hex) = 1 \/ HexValue(hex[1]) = -1 \/ HexValue(hex[2]) = -1
    THEN [ok |-> FALSE, err |-> IF py2 THEN "TypeError" ELSE "binascii.Error"]
    ELSE unhexlify_acc(py2, Tail(Tail(hex)),
                       Append(acc, HexValue(hex[1]) * 16 + HexValue(hex[2])))

unhexlify(py2, hex) == unhexlify_acc(py2, hex, <<>>)

\* hashlib.md5().hexdigest() of the bytes fed by update().  MD5 itself is
\* not computed: the digest is stood for by the hex form of the bytes fed,
\* so that it is fixed by them and tells them apart.
md5_hexdigest(fed) == hexlify(fed)

\* the loop over the replies of the first transaction:
\* token = binascii.unhexlify(attrs[b'ret']) for every reply
RECURSIVE login_token(_, _, _)
login_token(py2, replies, token) ==
    IF replies = <<>> THEN [ok |-> TRUE, token |-> token]
    ELSE IF ~dict_has(Head(replies)[2], K_ret)
    THEN [ok |-> FALSE, err |-> "KeyError"]
    ELSE IF ~unhexlify(py2, dict_get(Head(replies)[2], K_ret)).ok
    THEN unhexlify(py2, dict_get(Head(replies)[2], K_ret))
    ELSE login_token(py2, Tail(replies),
                     unhexlify(py2, dict_get(Head(replies)[2], K_ret)).data)

T_name_eq    == <<61, 110, 97, 109, 101, 61>>                       \* =name=
T_response00 == <<61, 114, 101, 115, 112, 111, 110, 115, 101, 61, 48, 48>>  \* =response=00

\* the words of the second transaction with the 0x00 left out of the hash
login_words_no_zero(username, pwd, token) ==
    << W_login,
       T_name_eq \o username,
       T_response00 \o md5_hexdigest(pwd \o token) >>

\* the words of the second transaction: the hasher is fed b'\x00', pwd, token
login_words(username, pwd, token) ==
    << W_login,
       T_name_eq \o username,
       T_response00 \o md5_hexdigest(<<0>> \o pwd \o token) >>

\* text.encode('ascii')
encode_ascii(py2, text) ==
    IF IsAscii(text) THEN [ok |-> TRUE, data |-> text]
    ELSE [ok |-> FALSE,
          err |-> IF py2 THEN "UnicodeDecodeError" ELSE "UnicodeEncodeError"]

--------------------------------------------------------------------------
(* RouterboardAPI.reconnect *)

RetryBudget == 10     \* retryloop(10, delay=0.1, timeout=30)

\* retryloop, after the loop body has called retry(): the body runs again
\* while tries are left and the overall timeout has not run out, otherwise
\* the loop ends with RetryError.  (A body that does not call retry() ends
\* the loop.)
retryloop(tries, made, late) ==
    IF made < tries /\ ~late THEN "again" ELSE "RetryError"

\* a handler that takes every exception for a transport error
except_any(kind) == TRUE

\* except socket.error: around connect() and login()
except_socket_error(kind) == kind = "socket.error"

\* the outer handler without RetryError in its tuple
reconnect_raise_socket_only(kind) ==
    IF kind = "socket.error" THEN "RosAPIConnectionError" ELSE kind

\* except (socket.error, RetryError) as e: raise RosAPIConnectionError(str(e));
\* any other exception leaves reconnect as it is
reconnect_raise(kind) ==
    IF kind \in {"socket.error", "RetryError"} THEN "RosAPIConnectionError"
    ELSE kind

\* connect() that leaves the talk engine of the earlier stream in place
connected_stale(c, sock) == [c EXCEPT !.socket = Some(sock)]

\* the end of connect(): self.socket = sock; self.api_client = RosAPI(sock)
connected(c, sock) ==
    [c EXCEPT !.socket = Some(sock), !.api_client = Some(sock)]

\* The object after __init__'s assignments (socket = None), or one that
\* holds socket 0 from an earlier connect; the socket opened by the k-th
\* connect of this run is socket k
NewAPI(sock) ==
    [socket |-> sock, api_client |-> sock, old_closed |-> FALSE,
     attempts |-> 0, logins |-> 0, late |-> FALSE, raised |-> "none",
     phase |-> 0, token |-> <<>>]

T_api == <<97, 112, 105>>     \* api
T_pw  == <<112, 119>>         \* pw

Passwords == { <<>>, T_pw, <<233>> }

R_chal == Reply(W_done, << <<K_ret, <<97, 98, 99, 100>>, TRUE>> >>)   \* !done =ret=abcd

\* What the device sends on a new connection before it closes it
LoginScripts ==
    { <<R_chal, R_done>>, <<R_empty, R_chal, R_done>>,
      <<R_trap, R_done>>, <<R_fatal, R_done>>,
      <<R_chal, R_trap, R_done>>, <<R_chal, R_fatal, R_done>>,
      <<>>, <<R_chal>>,
      <<R_done, R_done>>, <<R_donex, R_done>>, <<R_re, R_chal, R_done>>,
      <<R_reflag, R_chal, R_done>> }

\* refused: how many connects of this run fail with socket.error before
\* the device accepts one
InitReconnect ==
    /\ PY2 \in BOOLEAN
    /\ op = "reconnect"
    /\ arg \in [username : {T_api}, password : Passwords]
    /\ peer \in [up : BOOLEAN, replies : LoginScripts, tail : { <<>> },
                 refused : 0..(RetryBudget + 1)]
    /\ conn \in { NewAPI(None), NewAPI(Some(0)) }
    /\ pc = "reconnect"
    /\ rx = <<>>
    /\ words = <<>>
    /\ tx = <<>>
    /\ closed = FALSE
    /\ output = <<>>
    /\ ret = <<>>
    /\ result = NoResult
    /\ rd = Unused

\* reconnect(), up to the retry loop: if self.socket: self.close_connection()
reconnect ==
    /\ op = "reconnect" /\ pc = "reconnect"
    /\ conn' = [conn EXCEPT !.old_closed = (conn.socket # None)]
    /\ pc' = "connect"
    /\ UNCHANGED <<PY2, op, arg, peer, rx, tx, closed, words, output, ret,
                   result, rd>>

\* connect(): a new socket; sock.connect raises socket.error or the object
\* takes the socket and a talk engine on it
connect ==
    /\ op = "reconnect" /\ pc = "connect"
    /\ IF conn.attempts + 1 <= peer.refused
       THEN /\ conn' = [conn EXCEPT !.attempts = @ + 1]
            /\ result' = [kind |-> "socket.error", value |-> <<>>]
            /\ pc' = "except"
            /\ UNCHANGED <<rx, tx, closed>>
       ELSE /\ conn' = connected([conn EXCEPT !.attempts = @ + 1],
                                 conn.attempts + 1)
            /\ rx' = PeerBytes(peer)
            /\ tx' = <<>>
            /\ closed' = FALSE
            /\ result' = result
            /\ pc' = "login"
    /\ UNCHANGED <<PY2, op, arg, peer, words, output, ret, rd>>

\* RouterboardAPI.login(): the name and the password are encoded and
\* RosAPI.login starts its first transaction
login ==
    /\ op = "reconnect" /\ pc = "login"
    /\ conn' = [conn EXCEPT !.logins = @ + 1, !.phase = 1]
    /\ IF ~encode_ascii(PY2, arg.username).ok
       THEN /\ result' = [kind |-> encode_ascii(PY2, arg.username).err, value |-> <<>>]
            /\ pc' = "except"
            /\ words' = words
       ELSE IF ~encode_ascii(PY2, arg.password).ok
       THEN /\ result' = [kind |-> encode_ascii(PY2, arg.password).err, value |-> <<>>]
            /\ pc' = "except"
            /\ words' = words
       ELSE /\ result' = result
            /\ pc' = "talk"
            /\ words' = <<W_login>>
    /\ UNCHANGED <<PY2, op, arg, peer, rx, tx, closed, output, ret, rd>>

\* RosAPI.login after talk has returned: the first time the token is taken
\* from the replies and the second transaction starts; the second time
\* login returns, the loop body ends without retry() and reconnect returns
login_response ==
    /\ op = "reconnect" /\ pc = "login_response"
    /\ IF conn.phase = 1
       THEN \E t \in { login_token(PY2, output, <<>>) } :
              IF t.ok
              THEN /\ conn' = [conn EXCEPT !.phase = 2, !.token = t.token]
                   /\ words' = login_words(encode_ascii(PY2, arg.username).data,
                                           encode_ascii(PY2, arg.password).data,
                                           t.token)
                   /\ result' = result
                   /\ pc' = "talk"
              ELSE /\ result' = [kind |-> t.err, value |-> <<>>]
                   /\ pc' = "except"
                   /\ UNCHANGED <<conn, words>>
       ELSE /\ result' = [kind |-> "return", value |-> "None"]
            /\ pc' = "done"
            /\ UNCHANGED <<conn, words>>
    /\ UNCHANGED <<PY2, op, arg, peer, rx, tx, closed, output, ret, rd>>

\* An exception has left connect() or login().  The inner handler calls
\* retry() for a socket.error, and the loop goes on or ends with RetryError
\* (late: the timeout has run out by now); the outer handler turns
\* socket.error and RetryError into RosAPIConnectionError; anything else
\* leaves reconnect.
except ==
    /\ op = "reconnect" /\ pc = "except"
    /\ IF except_socket_error(result.kind)
       THEN \E late \in { conn.late, TRUE } :
              /\ conn' = [conn EXCEPT !.raised = result.kind, !.late = late]
              /\ IF retryloop(RetryBudget, conn.attempts, late) = "again"
                 THEN /\ pc' = "connect"
                      /\ result' = NoResult
                 ELSE /\ pc' = "done"
                      /\ result' = [kind |-> reconnect_raise("RetryError"),
                                    value |-> <<>>]
       ELSE /\ conn' = [conn EXCEPT !.raised = result.kind]
            /\ pc' = "done"
            /\ result' = [result EXCEPT !.kind = reconnect_raise(@)]
    /\ UNCHANGED <<PY2, op, arg, peer, rx, tx, closed, words, output, ret, rd>>

NextReconnect ==
    reconnect \/ connect \/ login \/ talk_write \/ talk_read
        \/ login_response \/ except

SpecReconnect == InitReconnect /\ [][NextReconnect]_vars

--------------------------------------------------------------------------
(* Properties: the length codec *)

ClaimLengths ==
    { Num(0, 0), Num(0, 127), Num(0, 128), Num(0, 16383), Num(0, 16384),
      Num(31, 65535), Num(32, 0), Num(4095, 65535), Num(4096, 0),
      Num(65535, 65535) }

\* The width column of the range table
TableLen(n) ==
    CASE n[1] = 0 /\ n[2] <= 127 -> 1
      [] n[1] = 0 /\ n[2] >= 128 /\ n[2] <= 16383 -> 2
      [] (n[1] = 0 /\ n[2] >= 16384) \/ (n[1] >= 1 /\ n[1] <= 31) -> 3
      [] n[1] >= 32 /\ n[1] <= 4095 -> 4
      [] n[1] >= 4096 -> 5

\* C1: for every n of the boundary list, read_length on a stream that holds
\* length_to_bytes(n) returns n and consumes exactly those bytes, and the
\* encoding is 1, 2, 3, 4 or 5 bytes long as the range table says, the
\* 5-byte form being 0xF0 and the four big-endian bytes of n.
C1_LengthRoundTrip ==
    (op = "length" /\ pc = "done" /\ arg.length \in ClaimLengths) =>
        /\ Len(tx) = TableLen(arg.length)
        /\ (TableLen(arg.length) = 5 =>
                tx = <<240, arg.length[1] \div 256, arg.length[1] % 256,
                       arg.length[2] \div 256, arg.length[2] % 256>>)
        /\ result.kind = "return"
        /\ result.value = arg.length
        /\ rx = peer.tail

\* C14: when the first byte read by read_length matches none of the five
\* prefix patterns (0xF8..0xFF), read_length raises RosAPIFatalError and the
\* stream is closed, so that no later read can be issued on it.
C14_FramingErrorClosesStream ==
    (op = "read_length" /\ pc = "done" /\ arg.stream[1] >= 248) =>
        /\ result.kind = "RosAPIFatalError"
        /\ closed

--------------------------------------------------------------------------
(* Properties: read_word under short reads *)

\* C17: however the transport splits what the peer delivers into non-empty
\* chunks, no recv asks for more than the bytes still missing; read_word
\* returns exactly the n payload bytes the length prefix announces and
\* leaves the bytes after them unread; it raises RosAPIConnectionError when
\* the peer closes while bytes are still missing.
C17_ExactWordRead ==
    op = "read_word" =>
        /\ rd.bufsize <= rd.missing
        /\ pc = "done" =>
              IF arg.cut >= arg.width + Len(arg.payload)
              THEN /\ result.kind = "return"
                   /\ result.value = arg.payload
                   /\ rx = SubSeq(RecvStream(arg),
                                  arg.width + Len(arg.payload) + 1,
                                  Len(RecvStream(arg)))
              ELSE result.kind = "RosAPIConnectionError"

--------------------------------------------------------------------------
(* Properties: talk *)

\* The peer's sentences that are not empty, in order
RECURSIVE NonEmptyReplies(_)
NonEmptyReplies(rs) ==
    IF rs = <<>> THEN <<>>
    ELSE IF Head(rs).tag = <<>> THEN NonEmptyReplies(Tail(rs))
    ELSE <<Head(rs)>> \o NonEmptyReplies(Tail(rs))

\* The attribute mapping a reply stands for: a word without a second '=' has
\* the empty value, and a repeated key keeps its last value
ReplyMapping(r) ==
    { <<r.attrs[j][1], IF r.attrs[j][3] THEN r.attrs[j][2] ELSE <<>> >> :
        j \in { j \in 1..Len(r.attrs) :
                  \A i \in (j + 1)..Len(r.attrs) : r.attrs[i][1] # r.attrs[j][1] } }

HasDoneAfterFirst(rs) == \E j \in 2..Len(rs) : rs[j].tag = W_done
HasDone(rs) == \E j \in 1..Len(rs) : rs[j].tag = W_done
FirstDone(rs) == CHOOSE j \in 1..Len(rs) :
                    rs[j].tag = W_done /\ \A i \in 1..(j - 1) : rs[i].tag # W_done

TalkEnded == op = "talk" /\ pc = "done"

\* C2: when the first non-empty reply sentence is !trap and a !done follows,
\* talk on a non-empty request ends with RosAPIError (not a subclass) whose
\* value is the attribute mapping of that !trap reply, and the stream is
\* not closed.
C2_TrapOutcome ==
    LET rs == NonEmptyReplies(peer.replies)
    IN  (/\ TalkEnded /\ arg.words # <<>> /\ peer.up
         /\ rs # <<>> /\ rs[1].tag = W_trap /\ HasDoneAfterFirst(rs)) =>
            /\ result.kind = "RosAPIError"
            /\ dict_items(result.value) = ReplyMapping(rs[1])
            /\ ~closed

\* C3: once the first reply received by talk is !fatal, talk cannot end, by
\* return or by any error, with the stream open: it closes the stream and
\* raises RosAPIFatalError carrying that reply's attributes.
C3_FatalClosesStream ==
    (TalkEnded /\ output # <<>> /\ output[1][1] = W_fatal) =>
        /\ closed
        /\ result.kind = "RosAPIFatalError"
        /\ result.value = output[1][2]

\* C4: when the first reply is neither !trap nor !fatal, talk on a non-empty
\* request returns the (tag, attributes) pairs of the non-empty sentences in
\* arrival order up to and including the first !done, and reads nothing
\* after that sentence.
C4_SuccessResult ==
    LET rs == NonEmptyReplies(peer.replies)
        d == FirstDone(rs)
        p == FirstDone(peer.replies)
    IN  (/\ TalkEnded /\ arg.words # <<>> /\ peer.up
         /\ rs # <<>> /\ rs[1].tag \notin {W_trap, W_fatal} /\ HasDone(rs)) =>
            /\ result.kind = "return"
            /\ Len(result.value) = d
            /\ \A j \in 1..d :
                  /\ result.value[j][1] = rs[j].tag
                  /\ dict_items(result.value[j][2]) = ReplyMapping(rs[j])
            /\ rx = PeerSentences(SubSeq(peer.replies, p + 1, Len(peer.replies)))
                      \o peer.tail

\* C5 as stated: talk with an empty word list writes no byte and reads no
\* byte.
C5_EmptyTalkNoOp ==
    (TalkEnded /\ arg.words = <<>>) =>
        /\ tx = <<>>
        /\ rx = PeerBytes(peer)

\* C5, amended: talk with an empty word list writes only the sentence
\* terminator, the single byte 0x00, reads no byte, leaves the stream open
\* and returns None; when that one send fails it raises
\* RosAPIConnectionError with nothing written.
C5_EmptyTalkWritesTerminator ==
    (TalkEnded /\ arg.words = <<>>) =>
        /\ rx = PeerBytes(peer)
        /\ ~closed
        /\ output = <<>>
        /\ IF peer.up
           THEN tx = <<0>> /\ result = [kind |-> "return", value |-> "None"]
           ELSE tx = <<>> /\ result.kind = "RosAPIConnectionError"

C5_Witness ==
    /\ TalkEnded /\ arg.words = <<>> /\ peer.up
    /\ peer.replies # <<>> /\ result.kind = "return"

\* C16: an attribute word with no '=' after its sigil (=flag) never makes
\* talk fail: talk goes on, and the key, the word without its sigil, is in
\* the reply's mapping with the empty byte string as its value.
C16_ValuelessAttribute ==
    LET rs == NonEmptyReplies(peer.replies)
    IN  (op = "talk" /\ arg.words # <<>> /\ peer.up) =>
            /\ result.kind # "ValueError"
            /\ \A j \in 1..Len(output) :
                  /\ output[j][1] = rs[j].tag
                  /\ dict_items(output[j][2]) = ReplyMapping(rs[j])

\* C18: when the first reply is neither !trap nor !fatal and a !trap or
\* !fatal reply arrives later, before the !done (!re, !trap, !done), talk on
\* a non-empty request raises no error, leaves the stream open and returns
\* every reply up to the !done, that reply included.
C18_FirstReplyOnly ==
    LET rs == NonEmptyReplies(peer.replies)
        d == FirstDone(rs)
    IN  (/\ TalkEnded /\ arg.words # <<>> /\ peer.up
         /\ rs # <<>> /\ rs[1].tag \notin {W_trap, W_fatal} /\ HasDone(rs)
         /\ \E j \in 2..(d - 1) : rs[j].tag \in {W_trap, W_fatal}) =>
            /\ result.kind = "return"
            /\ ~closed
            /\ Len(result.value) = d
            /\ \A j \in 1..d :
                  /\ result.value[j][1] = rs[j].tag
                  /\ dict_items(result.value[j][2]) = ReplyMapping(rs[j])

\* The peer delivers a !done reply sentence with no transport or framing
\* error before it
DeliversDone == op = "talk" /\ peer.up /\ HasDone(peer.replies)

\* The peer sends empty sentences only, and goes on for ever
OnlyEmptyForever ==
    /\ op = "talk" /\ peer.up /\ peer.pad /\ peer.tail = <<>>
    /\ \A j \in 1..Len(peer.replies) : peer.replies[j] = R_empty

\* C19: talk on a non-empty request never returns before it has read a
\* !done reply; when the peer delivers a !done reply sentence talk
\* eventually ends; against a peer that sends empty sentences only, for
\* ever, talk never ends.
C19_TalkTermination ==
    /\ []((TalkEnded /\ arg.words # <<>> /\ result.kind = "return") =>
            (output # <<>> /\ output[Len(output)][1] = W_done))
    /\ (DeliversDone ~> pc = "done")
    /\ []((OnlyEmptyForever /\ arg.words # <<>>) => pc # "done")

C19_Witness ==
    /\ TalkEnded /\ arg.words # <<>> /\ peer.pad
    /\ peer.replies = <<R_empty, R_re, R_done>>
    /\ result.kind = "return" /\ Len(result.value) = 2

--------------------------------------------------------------------------
(* Properties: the sentence framer *)

SentenceEnded == op = "sentence" /\ pc = "done"

RoundTrips ==
    /\ result.kind = "return"
    /\ result.value = arg.words
    /\ result.count = Len(arg.words)
    /\ rx = peer.tail

--------------------------------------------------------------------------
(* Properties: the resource builders *)

\* A request sentence has been handed to talk
Handed == op = "resource" /\ words # <<>>

\* The name on the wire: hyphens for underscores, a dot before id and
\* proplist only
WireName(name) ==
    (IF name = T_id \/ name = T_proplist THEN Dot ELSE <<>>)
        \o [j \in 1..Len(name) |-> IF name[j] = 95 THEN 45 ELSE name[j]]

\* The query word of a predicate: ?name when the value is absent,
\* ?name=value otherwise
QueryWord(pred) ==
    QuestionMark \o WireName(pred[1])
        \o (IF pred[2] = None THEN <<>> ELSE EqSign \o pred[2][1])

\* C7: for get, detailed_get and count on both builders the sentence handed
\* to talk is <namespace>/print followed by the query words of the positional
\* predicates in the caller's order; get(('type','ether'), ('type','vlan'),
\* ('#|', None)) emits ?type=ether, ?type=vlan, ?#| in that order.
C7_PredicateOrder ==
    (Handed /\ arg.method \in QueryMethods) =>
        /\ words[1] = T_interface \o Slash \o T_print
        /\ Len(words) >= 1 + Len(arg.args)
        /\ \A i \in 1..Len(arg.args) : words[1 + i] = QueryWord(arg.args[i])

\* C8: in both builders a predicate with an absent value is emitted as
\* ?<name> without '=', one with the empty string as ?<name>=, and the two
\* words differ.
C8_AbsentVersusEmpty ==
    (Handed /\ arg.method \in QueryMethods) =>
        \A i \in 1..Len(arg.args) :
            /\ arg.args[i][2] = None =>
                   words[1 + i] = QuestionMark \o WireName(arg.args[i][1])
            /\ arg.args[i][2] = Some(<<>>) =>
                   words[1 + i] = QuestionMark \o WireName(arg.args[i][1]) \o EqSign

\* word is sigil, name, and then nothing or '=' and a value
HasName(word, sigil, name) ==
    /\ Len(word) >= 1 + Len(name)
    /\ SubSeq(word, 1, 1 + Len(name)) = sigil \o name
    /\ Len(word) > 1 + Len(name) => word[2 + Len(name)] = EqSign[1]

\* The words after the query words: one per set-field
SetWords == { words[j] : j \in (2 + Len(QueryArgsOf(arg.method, arg.args, arg.kwargs)))..Len(words) }

ValueOrEmpty(v) == IF v = None THEN <<>> ELSE v[1]

\* C9: the name of every set-field and every query predicate goes on the
\* wire with hyphens for its underscores and with a leading dot exactly when
\* it is id or proplist; a set-field is the word =<name>=<value>
\* (proplist='name,type' gives =.proplist=name,type).
C9_NameTranslation ==
    Handed =>
        /\ arg.method \in QueryMethods =>
              /\ \A i \in 1..Len(arg.args) :
                    HasName(words[1 + i], QuestionMark, WireName(arg.args[i][1]))
              /\ \A i \in 1..Len(arg.kwargs) :
                    \E j \in (2 + Len(arg.args))..(1 + Len(arg.args) + Len(arg.kwargs)) :
                        HasName(words[j], QuestionMark, WireName(arg.kwargs[i][1]))
        /\ arg.method \in FieldMethods =>
              /\ Len(words) = 1 + Len(arg.kwargs)
              /\ SetWords = { EqSign \o WireName(f[1]) \o EqSign \o ValueOrEmpty(f[2]) :
                                f \in { arg.kwargs[i] : i \in 1..Len(arg.kwargs) } }
        /\ arg.method = "detailed_get" => SetWords = { EqSign \o T_detail \o EqSign }
        /\ arg.method = "count" => SetWords = { EqSign \o T_count_only \o EqSign }
        /\ arg.method = "get" => SetWords = {}

C9_Witness ==
    /\ Handed /\ arg.method = "set" /\ pc = "done" /\ result.kind = "return"
    /\ arg.kwargs = << <<T_mac_address, Some(<<>>)>>, <<T_proplist, Some(T_name_type)>> >>
    /\ words[2] = EqSign \o T_dotproplist \o EqSign \o T_name_type

\* talk has returned its list to call: the last reply is the !done
TalkReturned ==
    /\ output # <<>>
    /\ output[Len(output)][1] = W_done
    /\ output[1][1] \notin {W_trap, W_fatal}

\* C10: after a successful print transaction count returns the integer
\* parsed from the ret attribute of the terminal !done reply (ret=5 gives 5)
\* and fails with a local error only when ret is absent or not numeric.
C10_CountResult ==
    (op = "resource" /\ arg.method = "count" /\ pc = "done" /\ TalkReturned) =>
        LET attributes == output[Len(output)][2]
        IN  IF ~dict_has(attributes, K_ret) THEN result.kind = "TypeError"
            ELSE CASE dict_get(attributes, K_ret) = <<53>> ->
                          result.kind = "return" /\ result.value = 5
                   [] dict_get(attributes, K_ret) = <<49, 50>> ->
                          result.kind = "return" /\ result.value = 12
                   [] OTHER -> result.kind = "ValueError"

--------------------------------------------------------------------------
(* Properties: reconnect and login *)

\* The device accepts the login: it answers the first transaction with a
\* challenge and the second with !done
GoodLogin ==
    /\ peer.up
    /\ IsAscii(arg.password)
    /\ peer.replies \in { <<R_chal, R_done>>, <<R_empty, R_chal, R_done>> }

\* reconnect has returned after n connects, the last of them followed by the
\* only login, and the object holds the socket of that connect and a talk
\* engine on the same socket
ConnectedBy(n) ==
    /\ result.kind = "return"
    /\ conn.attempts = n
    /\ conn.logins = 1
    /\ conn.socket = Some(n)
    /\ conn.api_client = Some(n)
    /\ ~closed

\* C11 as stated: when connect fails with a transport error k < 10 times and
\* then succeeds with a successful login, reconnect ends after exactly k + 1
\* connects and one login, on the successful attempt, holding the new stream
\* and a talk engine on it.
C11_RetryUntilConnected ==
    (op = "reconnect" /\ peer.refused < RetryBudget /\ GoodLogin) =>
        /\ conn.logins > 0 => conn.attempts > peer.refused
        /\ pc = "done" => ConnectedBy(peer.refused + 1)

\* C11, amended: the same as long as the overall timeout of the retry loop
\* has not run out after a failed connect; when it has, reconnect ends with
\* RosAPIConnectionError after at most k connects and no login.
C11_RetryUntilConnectedInTime ==
    (op = "reconnect" /\ peer.refused < RetryBudget /\ GoodLogin) =>
        /\ conn.logins > 0 => conn.attempts > peer.refused
        /\ pc = "done" =>
              IF ~conn.late THEN ConnectedBy(peer.refused + 1)
              ELSE /\ result.kind = "RosAPIConnectionError"
                   /\ conn.attempts <= peer.refused
                   /\ conn.logins = 0

C11_Witness ==
    /\ op = "reconnect" /\ pc = "done" /\ GoodLogin
    /\ peer.refused = 2 /\ ConnectedBy(3)
    /\ conn.old_closed /\ arg.password = T_pw

\* C12: when the login of the first attempt ends in !trap or !fatal,
\* reconnect ends at once with that error, RosAPIError or RosAPIFatalError
\* with the reply's attributes, after one connect and one login.
C12_NoRetryOnProtocolError ==
    (/\ op = "reconnect" /\ peer.refused = 0
     /\ conn.raised \in {"RosAPIError", "RosAPIFatalError"}) =>
        /\ pc = "done"
        /\ conn.attempts = 1
        /\ conn.logins = 1
        /\ result.kind = conn.raised
        /\ dict_items(result.value) = ReplyMapping(R_trap)

C12_Witness ==
    /\ op = "reconnect" /\ pc = "done" /\ peer.refused = 0
    /\ peer.replies = <<R_chal, R_trap, R_done>>
    /\ conn.raised = "RosAPIError" /\ result.kind = "RosAPIError"
    /\ conn.attempts = 1

\* C13: reconnect never makes more than 10 connects, and when every connect
\* has failed with a transport error it ends with RosAPIConnectionError.
C13_BoundedRetry ==
    op = "reconnect" =>
        /\ conn.attempts <= RetryBudget
        /\ (pc = "done" /\ conn.attempts <= peer.refused) =>
              result.kind = "RosAPIConnectionError"

C13_Witness ==
    /\ op = "reconnect" /\ pc = "done" /\ ~conn.late
    /\ peer.refused > RetryBudget /\ conn.attempts = RetryBudget
    /\ result.kind = "RosAPIConnectionError" /\ conn.logins = 0

\* A request sentence on the wire, every word shorter than 0x80 bytes
RECURSIVE Wire(_)
Wire(ws) == IF ws = <<>> THEN PeerWord(<<>>) ELSE PeerWord(Head(ws)) \o Wire(Tail(ws))

Challenge == <<171, 205>>     \* the bytes of the hex string abcd

LoginFirst == Wire(<<W_login>>)

LoginSecond ==
    Wire(<< W_login,
            T_name_eq \o arg.username,
            T_response00 \o md5_hexdigest(<<0>> \o arg.password \o Challenge) >>)

\* C15: login writes the sentence /login; it writes a second sentence only
\* when the first transaction has returned with its !done read and the ret
\* of that reply hex-decoded into the challenge, and that sentence is
\* /login, =name=<username>, =response=00<hex digest of 0x00, password,
\* challenge>; nothing else is written, both are written when login
\* returns, and when the first transaction ends in !trap, !fatal or a
\* transport error that error leaves reconnect with no second sentence
\* written.
C15_LoginSequence ==
    op = "reconnect" =>
        /\ tx \in { <<>>, LoginFirst, LoginFirst \o LoginSecond }
        /\ tx = LoginFirst \o LoginSecond => conn.phase = 2
        /\ (conn.phase = 2 /\ pc = "talk") =>
              /\ tx = LoginFirst
              /\ output # <<>>
              /\ output[Len(output)][1] = W_done
              /\ dict_get(output[Len(output)][2], K_ret) = <<97, 98, 99, 100>>
              /\ conn.token = Challenge
        /\ (pc = "done" /\ result.kind = "return") => tx = LoginFirst \o LoginSecond
        /\ (/\ conn.phase = 1
            /\ conn.raised \in {"RosAPIError", "RosAPIFatalError",
                                "RosAPIConnectionError"}) =>
              /\ tx \in { <<>>, LoginFirst }
              /\ pc = "done"
              /\ result.kind = conn.raised

C15_Witness ==
    /\ op = "reconnect" /\ pc = "done" /\ result.kind = "return"
    /\ arg.password = T_pw
    /\ peer.replies = <<R_empty, R_chal, R_done>>
    /\ tx = LoginFirst \o LoginSecond

\* C20: a transport error of the login handshake is followed by another
\* connect and login: reconnect does not end on it while tries are left and
\* the timeout has not run out.
C20_RetryCoversLogin ==
    (op = "reconnect" /\ pc = "done" /\ conn.raised = "RosAPIConnectionError") =>
        (conn.attempts = RetryBudget \/ conn.late)

==========================================================================
